---- MODULE Spec2Model ----
(***************************************************************************)
(* Model of scripts/backfill-project-sequence.py: a linear script that     *)
(* selects the non-deleted rows of the tasks table ordered by              *)
(* (project_id, created_at), numbers them per project, writes the number   *)
(* into project_sequence, commits, creates a unique index on               *)
(* (project_id, project_sequence) and report how many rows carry a value. *)
(*                                                                         *)
(* The tasks table is a function from the primary key id to a row.  The    *)
(* connection's view of the table (db) and the persisted table (disk) are  *)
(* kept apart: updates go to db, conn.commit() copies db to disk, and a    *)
(* run that dies on an uncaught exception loses its open transaction.      *)
(* ORDER BY project_id, created_at leaves the order of rows with equal     *)
(* keys to the engine, so the select returns any ordering that is sorted   *)
(* on that key.                                                            *)
(***************************************************************************)
EXTENDS Integers, Sequences, FiniteSets

\* ---- bounds ----
NumTasks == 3
NumProjects == 2

\* SQL NULL of the nullable integer columns (real values are >= 1)
NULL == 0

Ids == 1..NumTasks
Projects == 1..NumProjects
\* two creation instants: enough for a strict order and for a tie
\* (the properties also hold with {1, 2, 3})
Times == {1, 2}
\* a row is unset, or carries the value an earlier numbering left in it
\* (the properties also hold with {NULL, 1, 2})
InitSeqs == {NULL, 1}
DeletionMarks == {NULL, 1}

Row == [project_id : Projects, created_at : Times,
        deleted_at : DeletionMarks, project_sequence : InitSeqs]

VARIABLES
    disk,               \* persisted tasks table: id -> row
    db,                 \* the connection's view (uncommitted updates included)
    indexExists,        \* task_project_sequence_idx is present
    pc,                 \* position of the script
    rerun,              \* this execution follows a completed one
    tasks,              \* cursor.fetchall(): sequence of <<id, project_id>>
    pos,                \* number of loop iterations completed
    project_sequences,  \* the dict project_id -> last sequence handed out
    indexOutcome,       \* what the try block around CREATE UNIQUE INDEX did
    report,             \* <<count>> once line 44 has printed it, else <<>>
    raised,             \* the uncaught exception that ended the run, if any
    nwrites,            \* history: updates issued per task id in this run
    pre                 \* history: table and index when this run started,
                        \* fetch order and report of the run before it

vars == <<disk, db, indexExists, pc, rerun, tasks, pos, project_sequences,
          indexOutcome, report, raised, nwrites, pre>>

\* ---- the SQL statements as operators ----

\* variant: the select without its WHERE clause
SelectAllRows(t) == {id \in Ids : TRUE}

\* WHERE deleted_at IS NULL
WhereDeletedAtIsNull(t) == {id \in Ids : t[id].deleted_at = NULL}

\* variant: ORDER BY project_id only
KeyLEProjectOnly(r1, r2) == r1.project_id <= r2.project_id

\* ORDER BY project_id, created_at ASC: r1 may precede r2
KeyLE(r1, r2) ==
    \/ r1.project_id < r2.project_id
    \/ r1.project_id = r2.project_id /\ r1.created_at <= r2.created_at

Orderings(S) ==
    {f \in [1..Cardinality(S) -> S] :
        \A a, b \in 1..Cardinality(S) : a # b => f[a] # f[b]}

\* every result the select of lines 9-16 can return on table t
SelectResults(t) ==
    LET rows == WhereDeletedAtIsNull(t)
    IN {[k \in 1..Cardinality(rows) |-> <<f[k], t[f[k]].project_id>>] :
            f \in {g \in Orderings(rows) :
                    \A a, b \in 1..Cardinality(rows) :
                        a < b => KeyLE(t[g[a]], t[g[b]])}}

\* variant: the else branch of line 24 does not add 1
BumpNoIncrement(ps, p) ==
    IF p \in DOMAIN ps
    THEN ps
    ELSE [q \in (DOMAIN ps) \cup {p} |-> IF q = p THEN 1 ELSE ps[q]]

\* variant: one counter shared by all projects
BumpGlobal(ps, p) ==
    LET last == IF DOMAIN ps = {}
                THEN 0
                ELSE CHOOSE m \in {ps[q] : q \in DOMAIN ps} :
                         \A q \in DOMAIN ps : ps[q] <= m
    IN [q \in (DOMAIN ps) \cup {p} |-> IF q = p THEN last + 1 ELSE ps[q]]

\* lines 21-26: the dict after seeing project p
Bump(ps, p) ==
    IF p \in DOMAIN ps
    THEN [ps EXCEPT ![p] = ps[p] + 1]
    ELSE [q \in (DOMAIN ps) \cup {p} |-> IF q = p THEN 1 ELSE ps[q]]

\* variant: UPDATE ... WHERE project_id = (the project of task_id)
UpdateRowByProject(t, task_id, seq) ==
    [id \in Ids |-> IF t[id].project_id = t[task_id].project_id
                    THEN [t[id] EXCEPT !.project_sequence = seq]
                    ELSE t[id]]

\* UPDATE tasks SET project_sequence = seq WHERE id = task_id
UpdateRow(t, task_id, seq) ==
    [id \in Ids |-> IF id = task_id
                    THEN [t[id] EXCEPT !.project_sequence = seq]
                    ELSE t[id]]

\* two rows the unique index refuses to hold together (NULLs are distinct)
SameKey(r1, r2) ==
    /\ r1.project_sequence # NULL
    /\ r1.project_id = r2.project_id
    /\ r1.project_sequence = r2.project_sequence

NoDuplicateKeys(t) ==
    \A a, b \in Ids : a # b => ~SameKey(t[a], t[b])

\* variant: SELECT COUNT(*) FROM tasks
CountAllRows(t) == Cardinality({id \in Ids : TRUE})

\* SELECT COUNT(*) FROM tasks WHERE project_sequence IS NOT NULL
CountNonNull(t) == Cardinality({id \in Ids : t[id].project_sequence # NULL})

\* ---- the script ----

\* Task ids are opaque keys: the script only hands them back in
\* WHERE id = ?, and the select may return rows with equal sort keys in any
\* order.  Every table is therefore a renaming of one whose rows are in
\* RowLE order by id, and only those are started from.
RowLE(r1, r2) ==
    LET k1 == <<r1.project_id, r1.created_at, r1.deleted_at, r1.project_sequence>>
        k2 == <<r2.project_id, r2.created_at, r2.deleted_at, r2.project_sequence>>
    IN \/ k1 = k2
       \/ \E i \in 1..4 : k1[i] < k2[i] /\ \A j \in 1..(i - 1) : k1[j] = k2[j]

Init ==
    /\ disk \in [Ids -> Row]
    /\ \A a, b \in Ids : a < b => RowLE(disk[a], disk[b])
    /\ db = disk
    /\ indexExists \in BOOLEAN
    /\ indexExists => NoDuplicateKeys(disk)
    /\ pc = "select"
    /\ rerun = FALSE
    /\ tasks = <<>>
    /\ pos = 0
    /\ project_sequences = <<>>
    /\ indexOutcome = "none"
    /\ report = <<>>
    /\ nwrites = [id \in Ids |-> 0]
    /\ raised = "none"
    /\ pre = [disk |-> disk, index |-> indexExists,
              tasks |-> <<>>, report |-> <<>>]

\* lines 9-19: the select succeeds
Select ==
    /\ pc = "select"
    /\ \E res \in SelectResults(db) : tasks' = res
    /\ pos' = 0
    /\ project_sequences' = <<>>
    /\ pc' = "loop"
    /\ UNCHANGED <<disk, db, indexExists, rerun, indexOutcome, report,
                   raised, nwrites, pre>>

\* variant: autocommit connection, every update is persisted at once
AbortKeepsWrites(exc) ==
    /\ pc' = "aborted"
    /\ raised' = exc
    /\ disk' = db
    /\ UNCHANGED <<db, indexExists, rerun, tasks, pos, project_sequences,
                   indexOutcome, report, nwrites, pre>>

\* an uncaught exception ends the process; the open transaction is lost
Abort(exc) ==
    /\ pc' = "aborted"
    /\ raised' = exc
    /\ db' = disk
    /\ UNCHANGED <<disk, indexExists, rerun, tasks, pos, project_sequences,
                   indexOutcome, report, nwrites, pre>>

\* lines 9-14: the select raises a database error
SelectError ==
    /\ pc = "select"
    /\ Abort("OperationalError")

\* lines 20-27: one iteration of the loop
Update ==
    /\ pc = "loop"
    /\ pos < Len(tasks)
    /\ LET task_id == tasks[pos + 1][1]
           project_id == tasks[pos + 1][2]
           ps == Bump(project_sequences, project_id)
           sequence == ps[project_id]
           after == UpdateRow(db, task_id, sequence)
       IN IF indexExists /\ ~NoDuplicateKeys(after)
          THEN \* UNIQUE constraint failed: sqlite3.IntegrityError
               Abort("IntegrityError")
          ELSE /\ db' = after
               /\ project_sequences' = ps
               /\ pos' = pos + 1
               /\ nwrites' = [nwrites EXCEPT ![task_id] = @ + 1]
               /\ UNCHANGED <<disk, indexExists, pc, rerun, tasks,
                              indexOutcome, report, raised, pre>>

\* line 27: the update raises some other database error
UpdateError ==
    /\ pc = "loop"
    /\ pos < Len(tasks)
    /\ Abort("OperationalError")

\* variant: line 31 missing, the script goes on without committing
CommitSkipped ==
    /\ pc = "loop"
    /\ pos = Len(tasks)
    /\ pc' = "index"
    /\ UNCHANGED <<disk, db, indexExists, rerun, tasks, pos, project_sequences,
                   indexOutcome, report, raised, nwrites, pre>>

\* line 31: conn.commit()
Commit ==
    /\ pc = "loop"
    /\ pos = Len(tasks)
    /\ disk' = db
    /\ pc' = "index"
    /\ UNCHANGED <<db, indexExists, rerun, tasks, pos, project_sequences,
                   indexOutcome, report, raised, nwrites, pre>>

\* lines 34-39: CREATE UNIQUE INDEX IF NOT EXISTS, as the engine decides it
CreateIndex ==
    /\ pc = "index"
    /\ IF indexExists
       THEN indexOutcome' = "exists" /\ UNCHANGED indexExists
       ELSE IF NoDuplicateKeys(disk)
            THEN indexOutcome' = "created" /\ indexExists' = TRUE
            ELSE indexOutcome' = "duplicate" /\ UNCHANGED indexExists
    /\ pc' = "verify"
    /\ UNCHANGED <<disk, db, rerun, tasks, pos, project_sequences, report,
                   raised, nwrites, pre>>

\* variant: the except clause re-raises
CreateIndexErrorRaised ==
    /\ pc = "index"
    /\ indexOutcome' = "error"
    /\ pc' = "aborted"
    /\ raised' = "OperationalError"
    /\ UNCHANGED <<disk, db, indexExists, rerun, tasks, pos,
                   project_sequences, report, nwrites, pre>>

\* lines 38-39: the statement fails for another cause; caught and printed
CreateIndexError ==
    /\ pc = "index"
    /\ indexOutcome' = "error"
    /\ pc' = "verify"
    /\ UNCHANGED <<disk, db, indexExists, rerun, tasks, pos,
                   project_sequences, report, raised, nwrites, pre>>

\* lines 42-46: count and report
Verify ==
    /\ pc = "verify"
    /\ report' = <<CountNonNull(db)>>
    /\ pc' = "done"
    /\ UNCHANGED <<disk, db, indexExists, rerun, tasks, pos,
                   project_sequences, indexOutcome, raised, nwrites, pre>>

\* the operator starts the script again on the store the last run left
Rerun ==
    /\ pc = "done"
    /\ rerun' = TRUE
    /\ pc' = "select"
    /\ db' = disk
    /\ tasks' = <<>>
    /\ pos' = 0
    /\ project_sequences' = <<>>
    /\ indexOutcome' = "none"
    /\ nwrites' = [id \in Ids |-> 0]
    /\ report' = <<>>
    /\ pre' = [disk |-> disk, index |-> indexExists,
               tasks |-> tasks, report |-> report]
    /\ UNCHANGED <<disk, indexExists, raised>>

Next ==
    \/ Select
    \/ SelectError
    \/ Update
    \/ UpdateError
    \/ Commit
    \/ CreateIndex
    \/ CreateIndexError
    \/ Verify
    \/ Rerun

Spec == Init /\ [][Next]_vars

\* the script runs to completion: a step that can be taken is taken
FairSpec == Spec /\ WF_vars(Next)

TypeOK ==
    /\ pc \in {"select", "loop", "index", "verify", "done", "aborted"}
    /\ rerun \in BOOLEAN
    /\ pos \in 0..NumTasks
    /\ indexExists \in BOOLEAN
    /\ Len(report) <= 1
    /\ raised \in {"none", "OperationalError", "IntegrityError"}

\* ---- vocabulary of the properties ----

AfterCommit == pc \in {"index", "verify", "done"}

NonDeleted(t) == {id \in Ids : t[id].deleted_at = NULL}
Deleted(t) == Ids \ NonDeleted(t)
NonDeletedOf(t, p) == {id \in NonDeleted(t) : t[id].project_id = p}

AllUnset(t) == \A id \in Ids : t[id].project_sequence = NULL

\* the non-deleted tasks of every project carry exactly 1..N, each once
Dense(t) ==
    \A p \in Projects :
        LET mine == NonDeletedOf(t, p)
        IN /\ \A id \in mine : t[id].project_sequence \in 1..Cardinality(mine)
           /\ \A n \in 1..Cardinality(mine) :
                  Cardinality({id \in mine : t[id].project_sequence = n}) = 1

\* number of tasks of the project of the k-th fetched task among the first k
Rank(k) == Cardinality({j \in 1..k : tasks[j][2] = tasks[k][2]})

Fetched(id) == \E k \in 1..Len(tasks) : tasks[k][1] = id
PositionOf(id) == CHOOSE k \in 1..Len(tasks) : tasks[k][1] = id

\* the table the run started on with the k first fetched tasks numbered
Assigned(k) ==
    [id \in Ids |->
        IF Fetched(id) /\ PositionOf(id) <= k
        THEN [pre.disk[id] EXCEPT !.project_sequence = Rank(PositionOf(id))]
        ELSE pre.disk[id]]

\* ---- properties ----

\* C1: when every project_sequence was unset before the run, after the run's
\* commit the project_sequence values of the non-deleted tasks of every
\* project are exactly 1..N, without duplicate, gap or unset value.
C1_DenseAfterRun ==
    (AfterCommit /\ AllUnset(pre.disk)) => Dense(disk)

C1_Witness ==
    /\ pc = "done"
    /\ AllUnset(pre.disk)
    /\ \E p, q \in Projects :
        /\ p # q
        /\ Cardinality(NonDeletedOf(disk, p)) >= 2
        /\ Cardinality(NonDeletedOf(disk, q)) >= 1

\* C2: after the commit, two non-deleted tasks of one project are numbered
\* in the order of their creation times, and two distinct ones never get
\* the same number, equal creation times included.
C2_CreationOrder ==
    AfterCommit =>
        \A a, b \in NonDeleted(disk) :
            (a # b /\ disk[a].project_id = disk[b].project_id) =>
                /\ disk[a].project_sequence # disk[b].project_sequence
                /\ disk[a].created_at < disk[b].created_at =>
                       disk[a].project_sequence < disk[b].project_sequence

C2_Witness ==
    /\ pc = "done"
    /\ \E a, b, c \in NonDeleted(disk) :
        /\ c # a /\ c # b
        /\ disk[a].project_id = disk[b].project_id
        /\ disk[a].project_id = disk[c].project_id
        /\ disk[a].created_at < disk[b].created_at
        /\ disk[c].created_at = disk[b].created_at

\* C3: in every state of a run a soft-deleted task keeps the project_sequence
\* it had before the run, in the connection's view and on disk, receives no
\* update, and is not counted by any project's counter.
C3_DeletedUntouched ==
    /\ \A id \in Deleted(disk) :
        /\ db[id].project_sequence = pre.disk[id].project_sequence
        /\ disk[id].project_sequence = pre.disk[id].project_sequence
        /\ nwrites[id] = 0
        /\ ~Fetched(id)
    /\ \A p \in DOMAIN project_sequences :
        project_sequences[p] <= Cardinality(NonDeletedOf(disk, p))

C3_Witness ==
    /\ pc = "done"
    /\ \E d \in Deleted(disk), l \in NonDeleted(disk) :
        /\ disk[d].project_id = disk[l].project_id
        /\ disk[d].created_at < disk[l].created_at
        /\ disk[d].project_sequence = NULL
    /\ \E d \in Deleted(disk) : disk[d].project_sequence # NULL

\* C4: until the commit the persisted table is the one the run started on,
\* however many updates were issued, and it still is after a run that died
\* in the select or in the loop; from the commit on it holds all assignments.
C4_AllOrNothing ==
    /\ pc \in {"select", "loop", "aborted"} => disk = pre.disk
    /\ pc = "aborted" => db = pre.disk
    /\ AfterCommit => disk = Assigned(Len(tasks))

C4_Witness ==
    /\ pc = "aborted"
    /\ pos >= 2
    /\ \E k \in 1..pos : pre.disk[tasks[k][1]].project_sequence # Rank(k)

C6_Report ==
    pc = "done" =>
        /\ Len(report) = 1
        /\ report[1] =
               Cardinality({id \in Ids : disk[id].project_sequence # NULL})
        /\ disk = Assigned(Len(tasks)) /\ db = disk
        /\ AllUnset(pre.disk) => report[1] = Cardinality(NonDeleted(disk))
        /\ rerun => report = pre.report

C6_Witness ==
    /\ pc = "done"
    /\ rerun
    /\ report = <<2>>
    /\ \E d \in Deleted(disk) : disk[d].project_sequence # NULL
    /\ \E d \in NonDeleted(disk) : pre.disk[d].project_sequence # NULL

\* C7: a run on the store a completed run left, with the unique index
\* present, meets no uniqueness conflict in its loop and ends with every
\* project_sequence as the run before left it.
C7_RerunReproduces ==
    (rerun /\ pre.index) =>
        /\ raised # "IntegrityError"
        /\ pc = "done" => disk = pre.disk

\* C8: every task is updated at most once in a run, soft-deleted tasks never
\* and non-deleted tasks exactly once when the loop is over; the k-th fetched
\* task is given the number of tasks of its project among the first k, and a
\* project's counter is the number of its tasks processed so far.
C8_OncePerTask ==
    /\ \A id \in Ids : nwrites[id] <= 1
    /\ \A id \in Deleted(disk) : nwrites[id] = 0
    /\ (pc = "loop" /\ pos = Len(tasks)) \/ AfterCommit =>
           \A id \in NonDeleted(disk) : nwrites[id] = 1
    /\ pc = "loop" =>
        /\ db = Assigned(pos)
        /\ \A p \in Projects :
            LET seen == Cardinality({k \in 1..pos : tasks[k][2] = p})
            IN IF seen = 0
               THEN p \notin DOMAIN project_sequences
               ELSE p \in DOMAIN project_sequences
                    /\ project_sequences[p] = seen

C8_Witness ==
    /\ pc = "loop"
    /\ pos = Len(tasks)
    /\ Deleted(disk) # {}
    /\ \E p \in DOMAIN project_sequences : project_sequences[p] = 2

\* C9: whenever index creation is about to be attempted or has been
\* attempted, failed or not, the persisted table is the committed dense
\* assignment.
C9_IndexAfterCommit ==
    (pc = "index" \/ indexOutcome # "none") =>
        /\ Dense(disk)
        /\ disk = Assigned(Len(tasks))

C9_Witness ==
    /\ pc = "verify"
    /\ indexOutcome = "error"
    /\ disk # pre.disk
    /\ ~indexExists

\* C10: when every project_sequence was unset before the run, after the
\* commit no two rows of the table, soft-deleted ones included, have the
\* same project_id and the same non-null project_sequence, and index
\* creation does not fail on duplicate keys.
C10_NoDuplicatePairs ==
    (AfterCommit /\ AllUnset(pre.disk)) =>
        /\ \A a, b \in Ids :
            (a # b /\ disk[a].project_id = disk[b].project_id
                   /\ disk[a].project_sequence # NULL) =>
                disk[a].project_sequence # disk[b].project_sequence
        /\ indexOutcome # "duplicate"

C10_Witness ==
    /\ pc = "verify"
    /\ AllUnset(pre.disk)
    /\ indexOutcome = "created"
    /\ \E a, b \in Deleted(disk) :
        a # b /\ disk[a].project_id = disk[b].project_id
    /\ NonDeleted(disk) # {}

====
